---- MODULE Spec2Model ----
(***************************************************************************)
(* Big Mac Index dashboard (src/app.py).                                   *)
(*                                                                         *)
(* The script is a Streamlit page: the whole file runs top to bottom once  *)
(* when a session opens and once more after every widget interaction.      *)
(* The model has one action per way a script run is triggered; each action *)
(* carries out the whole run (lines 23-172).                               *)
(*                                                                         *)
(* Representation of values                                                *)
(*   text cell of a CSV file     a TLA+ string                             *)
(*   date cell of a CSV file     <<y, m, d>> for the text "YYYY-MM-DD",    *)
(*                               <<y, m, d, h>> for "YYYY-MM-DD HH:00",    *)
(*                               <<>> for an empty cell                    *)
(*   Timestamp                   <<y, m, d, h>>;  NaT is <<>>              *)
(*   float                       [k |-> "num", v |-> thousandths],         *)
(*                               NaN and PosInf are records of their own   *)
(*   missing text (NaN)          NullStr                                   *)
(*   formatted date              the sequence of its character codes       *)
(***************************************************************************)
EXTENDS Integers, Sequences, FiniteSets, TLC

VARIABLES csv, ppp_csv, cache, load_calls, merge_calls, runs,
          date_select, country_select,
          df, merged_df, selected_date, selected_countries,
          map_df, filtered_df, map_out, trend_out, metrics, status

vars == <<csv, ppp_csv, cache, load_calls, merge_calls, runs,
          date_select, country_select,
          df, merged_df, selected_date, selected_countries,
          map_df, filtered_df, map_out, trend_out, metrics, status>>

(***************************************************************************)
(* Bounds of the model.                                                    *)
(***************************************************************************)
MaxRawRows == 2
MaxRows == 3
MaxPPP == 2
MaxRuns == 2

(***************************************************************************)
(* Values.                                                                 *)
(***************************************************************************)
None == <<>>
NaT == <<>>
NullStr == "<NaN>"
NaN == [k |-> "nan", v |-> 0]
PosInf == [k |-> "inf", v |-> 0]
Num(n) == [k |-> "num", v |-> n]

\* The cell texts pandas.read_csv reads as missing.
NaValues == {"", "NA", "N/A", "NaN", "nan", "null", "NULL", "n/a", "#N/A"}

\* The decimal texts of the model's files, with their values in thousandths.
NumText == ("5.126" :> 5126) @@ ("5.134" :> 5134) @@ ("3.004" :> 3004)
           @@ ("1.000" :> 1000) @@ ("0.250" :> 250) @@ ("61000" :> 61000000)
           @@ ("2.000" :> 2000)

\* pd.to_numeric(errors='coerce') on one cell.
to_numeric(s) ==
    IF s \in DOMAIN NumText THEN Num(NumText[s])
    ELSE IF s = "inf" THEN PosInf
    ELSE NaN

\* A text cell as pd.read_csv hands it over.
read_text(s) == IF s \in NaValues THEN NullStr ELSE s

IsLeap(y) == (y % 4 = 0 /\ y % 100 # 0) \/ y % 400 = 0

DaysInMonth(y, m) ==
    IF m = 2 THEN (IF IsLeap(y) THEN 29 ELSE 28)
    ELSE IF m \in {4, 6, 9, 11} THEN 30 ELSE 31

\* Faulty variant: the day of the month is not checked against the month.
to_datetime_lenient(c) ==
    IF Len(c) \in {3, 4}
    THEN <<c[1], c[2], c[3], IF Len(c) = 4 THEN c[4] ELSE 0>>
    ELSE NaT

\* pd.to_datetime(errors='coerce') on one cell.
to_datetime(c) ==
    IF /\ Len(c) \in {3, 4}
       /\ c[1] \in 1678..2261
       /\ c[2] \in 1..12
       /\ c[3] \in 1..DaysInMonth(c[1], c[2])
       /\ (Len(c) = 4 => c[4] \in 0..23)
    THEN <<c[1], c[2], c[3], IF Len(c) = 4 THEN c[4] ELSE 0>>
    ELSE NaT


numeric_cols == {"local_price", "dollar_ex", "dollar_price", "USD_raw", "EUR_raw",
                 "GBP_raw", "JPY_raw", "CNY_raw", "GDP_bigmac", "adj_price",
                 "USD_adjusted", "EUR_adjusted", "GBP_adjusted", "JPY_adjusted",
                 "CNY_adjusted"}

text_cols == {"iso_a3", "name", "currency_code"}

Columns == {"date"} \cup text_cols \cup numeric_cols

\* Faulty variants of line 19: a required column left out; every numeric column
\* required.
dropna_without_name == {"date", "iso_a3", "dollar_price"}
dropna_with_numeric == {"date", "iso_a3", "name"} \cup numeric_cols

dropna_subset == {"date", "iso_a3", "name", "dollar_price"}

\* One row of the file after lines 12-18; i is its row label.
CleanRow(raw, i) ==
    [c \in Columns \cup {"idx"} |->
        IF c = "idx" THEN i
        ELSE IF c = "date" THEN to_datetime(raw[c])
        ELSE IF c \in numeric_cols THEN to_numeric(raw[c])
        ELSE read_text(raw[c])]

\* Series.isna() on one cell of column c.
isna(c, x) ==
    IF c = "date" THEN x = NaT
    ELSE IF c \in numeric_cols THEN x = NaN
    ELSE x = NullStr

\* The mask of line 19.
Keep(r) == \A c \in dropna_subset : ~isna(c, r[c])

\* load_data(): the body of the cached function.
load_data(file) ==
    LET rows == [i \in 1..Len(file) |-> CleanRow(file[i], i - 1)]
    IN  SelectSeq(rows, Keep)

\* Faulty variant: the decorator of line 10 is missing.
cache_never_hit(c) == FALSE

\* st.cache_data: whether a call of load_data() is answered from the cache.
cache_hit(c) == c.set

\* Line 25: df['year'] = df['date'].dt.year
with_year(t) == [i \in 1..Len(t) |-> t[i] @@ ("year" :> t[i].date[1])]

\* Lines 23 and 26: the PPP file, its key columns renamed.
read_ppp(file) ==
    [i \in 1..Len(file) |->
        [name |-> read_text(file[i].Country),
         year |-> file[i].Year,
         PPP  |-> to_numeric(file[i].PPP)]]

\* The rows of `right` with the key of the left row r, in right order.
Matches(r, right) ==
    SelectSeq(right, LAMBDA p : p.name = r.name /\ p.year = r.year)

\* Faulty variant: how='inner'.
JoinRow_inner(r, right) ==
    LET m == Matches(r, right)
    IN  [j \in 1..Len(m) |-> r @@ ("PPP" :> m[j].PPP)]

\* The merged rows one left row gives.
JoinRow(r, right) ==
    LET m == Matches(r, right)
    IN  IF m = <<>> THEN << r @@ ("PPP" :> NaN) >>
        ELSE [j \in 1..Len(m) |-> r @@ ("PPP" :> m[j].PPP)]

RECURSIVE JoinFrom(_, _, _)
JoinFrom(left, right, i) ==
    IF i > Len(left) THEN <<>>
    ELSE JoinRow(left[i], right) \o JoinFrom(left, right, i + 1)

\* Line 29: pd.merge(df, df_ppp, on=['name', 'year'], how='left'); the result
\* has a fresh RangeIndex.
merge(left, right) ==
    LET rows == JoinFrom(left, right, 1)
    IN  [i \in 1..Len(rows) |-> [rows[i] EXCEPT !.idx = i - 1]]

Digit(n) == 48 + n
Hyphen == 45

\* Series.dt.strftime('%Y-%m-%d') on one Timestamp, as character codes.
strftime(ts) ==
    << Digit(ts[1] \div 1000), Digit((ts[1] \div 100) % 10),
       Digit((ts[1] \div 10) % 10), Digit(ts[1] % 10), Hyphen,
       Digit(ts[2] \div 10), Digit(ts[2] % 10), Hyphen,
       Digit(ts[3] \div 10), Digit(ts[3] % 10) >>

\* Python's order on str.
RECURSIVE StrLess(_, _)
StrLess(a, b) ==
    IF b = <<>> THEN FALSE
    ELSE IF a = <<>> THEN TRUE
    ELSE IF Head(a) # Head(b) THEN Head(a) < Head(b)
    ELSE StrLess(Tail(a), Tail(b))

\* sorted(S, reverse=True)
RECURSIVE sorted_reverse(_)
sorted_reverse(S) ==
    IF S = {} THEN <<>>
    ELSE LET top == CHOOSE x \in S : \A y \in S \ {x} : StrLess(y, x)
         IN  <<top>> \o sorted_reverse(S \ {top})

\* Line 37: the options of the date selectbox.
date_options(t) == sorted_reverse({strftime(t[i].date) : i \in 1..Len(t)})

\* st.selectbox: the stored choice while it is an option, else the first option,
\* else None.
selectbox(options, choice) ==
    IF choice.set /\ \E i \in 1..Len(options) : options[i] = choice.val THEN choice.val
    ELSE IF options = <<>> THEN None
    ELSE options[1]

\* Faulty variant: df[df['date'] == selected_date], which compares instants.
filter_exact(t, d) == SelectSeq(t, LAMBDA r : r.date[4] = 0 /\ strftime(r.date) = d)

\* Lines 38 and 120: df[df['date'].dt.strftime('%Y-%m-%d') == selected_date]
filter_by_date(t, d) == SelectSeq(t, LAMBDA r : strftime(r.date) = d)

\* Series.round(2) on one float (round half to even on the decimal value).
round2(x) ==
    IF x.k # "num" THEN x
    ELSE LET q == x.v \div 10
             m == x.v % 10
         IN  IF m < 5 THEN Num(q * 10)
             ELSE IF m > 5 THEN Num((q + 1) * 10)
             ELSE IF q % 2 = 0 THEN Num(q * 10) ELSE Num((q + 1) * 10)

round_cols(t) ==
    [i \in 1..Len(t) |->
        [t[i] EXCEPT !.dollar_price = round2(@), !.local_price = round2(@)]]

\* Faulty variant: the selection is a view, so the assignments reach df.
left_column_view(t, d) ==
    LET written == [i \in 1..Len(t) |->
                       IF strftime(t[i].date) = d
                       THEN [t[i] EXCEPT !.dollar_price = round2(@),
                                         !.local_price = round2(@)]
                       ELSE t[i]]
    IN  [df |-> written, filtered_df |-> filter_by_date(written, d)]

\* Lines 38-40: the boolean-mask selection is a new frame, so the two column
\* assignments go to the copy and df keeps its values.
left_column(t, d) ==
    [df |-> t, filtered_df |-> round_cols(filter_by_date(t, d))]

\* Line 117: df['name'].unique()
unique_names(t) == {t[i].name : i \in 1..Len(t)}

default_countries == {"United States", "China", "Switzerland"}

\* st.multiselect: the stored choice, or the default on its first run.
multiselect(choice) == IF choice.set THEN choice.val ELSE default_countries

\* Line 122: filtered_df[filtered_df['name'].isin(selected_countries)]
filter_by_countries(t, names) == SelectSeq(t, LAMBDA r : r.name \in names)

\* Faulty variant: line 121 is missing.
right_filter_always(t, d, names) ==
    filter_by_countries(filter_by_date(t, d), names)

\* Lines 120-122.
right_filter(t, d, names) ==
    IF names # {} THEN filter_by_countries(filter_by_date(t, d), names)
    ELSE filter_by_date(t, d)

\* Lines 126, 137, 148.
trend_section(names) ==
    IF names # {} THEN "charts" ELSE "Select at least one country."

\* a < b on floats that are not NaN.
FloatLess(a, b) ==
    IF a.k = "inf" THEN FALSE
    ELSE IF b.k = "inf" THEN TRUE
    ELSE a.v < b.v

RECURSIVE SumNum(_)
SumNum(s) == IF s = <<>> THEN 0 ELSE Head(s).v + SumNum(Tail(s))

\* Series.mean(): NaN is skipped; the mean is kept as an exact fraction.
mean(s) ==
    LET present == SelectSeq(s, LAMBDA x : x # NaN)
    IN  IF present = <<>> THEN NaN
        ELSE IF \E i \in 1..Len(present) : present[i] = PosInf THEN PosInf
        ELSE [k |-> "ratio", v |-> SumNum(present), n |-> Len(present)]

Column(t, c) == [i \in 1..Len(t) |-> t[i][c]]

\* Faulty variant: the last row holding the largest value.
idxmax_last(s) ==
    CHOOSE i \in 1..Len(s) :
        /\ \A j \in 1..Len(s) : ~FloatLess(s[i], s[j])
        /\ \A j \in (i + 1)..Len(s) : FloatLess(s[j], s[i])

\* Series.idxmax(): the position of the first row holding the largest value.
idxmax_pos(s) ==
    CHOOSE i \in 1..Len(s) :
        /\ \A j \in 1..Len(s) : ~FloatLess(s[i], s[j])
        /\ \A j \in 1..(i - 1) : FloatLess(s[j], s[i])

\* Series.max()
series_max(s) == s[CHOOSE i \in 1..Len(s) : \A j \in 1..Len(s) : ~FloatLess(s[i], s[j])]

\* Lines 160-170; idxmax raises ValueError on an empty Series.
stats(t) ==
    IF t = <<>> THEN [state |-> "ValueError"]
    ELSE LET label == t[idxmax_pos(Column(t, "dollar_price"))].idx
             hit == SelectSeq(t, LAMBDA r : r.idx = label)
         IN  [state |-> "metrics",
              avg_price |-> mean(Column(t, "dollar_price")),
              avg_gdp |-> mean(Column(t, "GDP_bigmac")),
              most_expensive |-> hit[1].name,
              most_expensive_price |-> series_max(Column(t, "dollar_price"))]

\* Faulty variant: line 159 is missing.
metrics_unguarded(t) == stats(t)

\* Lines 159-172.
metrics_section(t) ==
    IF t # <<>> THEN stats(t) ELSE [state |-> "No data for metrics."]

(***************************************************************************)
(* One run of the script (lines 23-172) with the cache and the widget      *)
(* choices it starts from.                                                 *)
(***************************************************************************)
\* Lines 117-172, reached with the frames of lines 24-40.
right_column(loaded, merged, sd, left, csel) ==
    LET \* Line 118 raises StreamlitAPIException when a default is no option.
        raised == ~(default_countries \subseteq unique_names(left.df))
        sc == multiselect(csel)
        fd == IF raised THEN left.filtered_df ELSE right_filter(left.df, sd, sc)
    IN  [cache |-> [set |-> TRUE, val |-> loaded],
         df |-> left.df,
         merged_df |-> merged,
         selected_date |-> sd,
         map_df |-> left.filtered_df,
         map_out |-> IF left.filtered_df # <<>> THEN "map"
                     ELSE "No data for selected date.",
         status |-> IF raised THEN "error" ELSE "ok",
         selected_countries |-> IF raised THEN {} ELSE sc,
         filtered_df |-> fd,
         trend_out |-> IF raised THEN "not reached" ELSE trend_section(sc),
         metrics |-> IF raised THEN [state |-> "not reached"]
                     ELSE metrics_section(fd)]

\* Lines 35-40, then the rest of the script.
from_left_column(loaded, df0, merged, sd, csel) ==
    right_column(loaded, merged, sd, left_column(df0, sd), csel)

\* Lines 25-37, then the rest of the script.
from_loaded(loaded, dsel, csel) ==
    LET df0 == with_year(loaded)
    IN  from_left_column(loaded, df0, merge(df0, read_ppp(ppp_csv)),
                         selectbox(date_options(df0), dsel), csel)

script_run(cin, dsel, csel) ==
    from_loaded(IF cache_hit(cin) THEN cin.val ELSE load_data(csv), dsel, csel)
        @@ ("loads" :> IF cache_hit(cin) THEN 0 ELSE 1)

Run(dsel, csel) ==
    \E o \in {script_run(cache, dsel, csel)} :
        /\ cache' = o.cache
        /\ load_calls' = load_calls + o.loads
        /\ merge_calls' = merge_calls + 1
        /\ runs' = runs + 1
        /\ date_select' = dsel
        /\ country_select' = IF o.status = "ok"
                             THEN [set |-> TRUE, val |-> o.selected_countries]
                             ELSE csel
        /\ df' = o.df
        /\ merged_df' = o.merged_df
        /\ selected_date' = o.selected_date
        /\ selected_countries' = o.selected_countries
        /\ map_df' = o.map_df
        /\ filtered_df' = o.filtered_df
        /\ map_out' = o.map_out
        /\ trend_out' = o.trend_out
        /\ metrics' = o.metrics
        /\ status' = o.status
        /\ UNCHANGED <<csv, ppp_csv>>

\* The session opens: the first run of the script.
FirstRun ==
    /\ status = "init"
    /\ Run(date_select, country_select)

\* The user picks another date in the selectbox of line 37.
SelectDate ==
    /\ status # "init"
    /\ runs < MaxRuns
    /\ \E i \in 1..Len(date_options(df)) :
          /\ date_options(df)[i] # selected_date
          /\ Run([set |-> TRUE, val |-> date_options(df)[i]], country_select)

\* The user changes the selection in the multiselect of line 118.
SelectCountries ==
    /\ status = "ok"
    /\ runs < MaxRuns
    /\ \E S \in SUBSET unique_names(df) :
          /\ S # selected_countries
          /\ Run(date_select, [set |-> TRUE, val |-> S])

\* The user reruns the page without changing a widget.
Rerun ==
    /\ status # "init"
    /\ runs < MaxRuns
    /\ Run(date_select, country_select)

(***************************************************************************)
(* Input files.                                                            *)
(***************************************************************************)
Tables(R, n) == UNION {[1..k -> R] : k \in 0..n}

BaseRaw ==
    [c \in Columns |->
        IF c = "date" THEN <<2024, 1, 1>>
        ELSE IF c = "iso_a3" THEN "USA"
        ELSE IF c = "name" THEN "United States"
        ELSE IF c = "currency_code" THEN "USD"
        ELSE IF c \in {"local_price", "dollar_price", "adj_price"} THEN "5.126"
        ELSE IF c = "dollar_ex" THEN "1.000"
        ELSE IF c = "GDP_bigmac" THEN "61000"
        ELSE "0.250"]

IsoOf(n) ==
    IF n = "United States" THEN "USA"
    ELSE IF n = "China" THEN "CHN"
    ELSE "CHE"

\* Rows of a well-formed file: the three default countries in January 2024 with
\* two prices that round to the same cent, and Switzerland in July 2024 as well.
DashRows ==
    {[BaseRaw EXCEPT !.name = n, !.iso_a3 = IsoOf(n), !.dollar_price = p] :
        n \in default_countries, p \in {"5.126", "5.134"}}
    \cup {[BaseRaw EXCEPT !.name = "Switzerland", !.iso_a3 = "CHE", !.date = <<2024, 7, 1>>]}

DashPPP ==
    << [Country |-> "United States", Year |-> 2024, PPP |-> "1.000"] >>

\* Rows with defects in the required and in the numeric columns: the clean
\* row, and every row that differs from it in one or two of these cells.
DefectRows ==
    {[BaseRaw EXCEPT !.date = d, !.iso_a3 = i, !.name = n,
                     !.dollar_price = p, !.local_price = l, !.GDP_bigmac = g] :
        d \in {<<2024, 1, 1>>, <<2024, 2, 30>>},
        i \in {"USA", "CH", ""},
        n \in {"United States", ""},
        p \in {"5.126", "inf", "abc"},
        l \in {"5.126", "abc"},
        g \in {"61000", "abc"}}

LoadRows ==
    {r \in DefectRows : Cardinality({c \in Columns : r[c] # BaseRaw[c]}) <= 2}

\* Rows of two countries in two years.
JoinRows ==
    {[BaseRaw EXCEPT !.name = n, !.iso_a3 = IsoOf(n), !.date = d] :
        n \in {"United States", "Switzerland"},
        d \in {<<2024, 1, 1>>, <<2023, 7, 1>>}}

PPPRows ==
    [Country : {"United States"}, Year : {2023, 2024}, PPP : {"1.000", "2.000"}]

\* Rows of one country on days that share a month, a day, or nothing.
FilterRows ==
    {[BaseRaw EXCEPT !.date = d] :
        d \in {<<2024, 1, 1>>, <<2024, 1, 1, 12>>, <<2024, 1, 2>>, <<2023, 1, 1>>}}

InitWith(files, ppps) ==
    /\ csv \in files
    /\ ppp_csv \in ppps
    /\ cache = [set |-> FALSE, val |-> <<>>]
    /\ load_calls = 0
    /\ merge_calls = 0
    /\ runs = 0
    /\ date_select = [set |-> FALSE, val |-> None]
    /\ country_select = [set |-> FALSE, val |-> {}]
    /\ df = <<>>
    /\ merged_df = <<>>
    /\ selected_date = None
    /\ selected_countries = {}
    /\ map_df = <<>>
    /\ filtered_df = <<>>
    /\ map_out = "not reached"
    /\ trend_out = "not reached"
    /\ metrics = [state |-> "not reached"]
    /\ status = "init"

Init == InitWith(Tables(DashRows, MaxRows), {DashPPP})
Next == FirstRun \/ SelectDate \/ SelectCountries \/ Rerun
Spec == Init /\ [][Next]_vars

InitLoad == InitWith(Tables(LoadRows, MaxRawRows), {DashPPP})
NextLoad == FirstRun \/ Rerun
SpecLoad == InitLoad /\ [][NextLoad]_vars

InitJoin == InitWith(Tables(JoinRows, MaxRawRows), Tables(PPPRows, MaxPPP))
NextJoin == FirstRun \/ Rerun
SpecJoin == InitJoin /\ [][NextJoin]_vars

InitFilter == InitWith(Tables(FilterRows, MaxRows), {DashPPP})
NextFilter == FirstRun \/ SelectDate
SpecFilter == InitFilter /\ [][NextFilter]_vars

(***************************************************************************)
(* Properties.                                                             *)
(***************************************************************************)
Rows(t) == {t[i] : i \in 1..Len(t)}

\* The rows of the file, each with its row label.
FileRows == {[raw |-> csv[i], idx |-> i - 1] : i \in 1..Len(csv)}

\* The four required cells of a file row are present after parsing.
RequiredPresent(raw) ==
    /\ to_datetime(raw.date) # NaT
    /\ read_text(raw.iso_a3) # NullStr
    /\ read_text(raw.name) # NullStr
    /\ to_numeric(raw.dollar_price) # NaN

\* A cell that holds text which is no number.
FailsCoercion(s) == s \notin NaValues /\ to_numeric(s) = NaN

\* C1: every row the loader returns has a parsed date, an iso_a3, a name and a
\* numeric dollar_price, and every file row that has all four is returned.
C1_LoaderKeepsExactlyCompleteRows ==
    status # "init" =>
        /\ \A r \in Rows(cache.val) :
              /\ r.date # NaT
              /\ r.iso_a3 # NullStr
              /\ r.name # NullStr
              /\ r.dollar_price # NaN
        /\ \A f \in FileRows :
              RequiredPresent(f.raw) <=> \E r \in Rows(cache.val) : r.idx = f.idx

C1_Witness ==
    /\ status # "init"
    /\ \E f \in FileRows : RequiredPresent(f.raw) /\ FailsCoercion(f.raw.local_price)
    /\ \E f \in FileRows : ~RequiredPresent(f.raw)
    /\ Len(cache.val) = 1

\* C2: a coercion failure in a numeric column other than dollar_price makes that
\* cell NaN and nothing else: the row is returned as the row with a valid number
\* in that cell would be, but for that cell. A coercion failure in dollar_price
\* rejects the row.
C2_CoercionFailureIsPerCell ==
    status # "init" =>
        \A f \in FileRows :
           /\ FailsCoercion(f.raw.dollar_price) =>
                 ~\E r \in Rows(cache.val) : r.idx = f.idx
           /\ \A c \in numeric_cols \ {"dollar_price"} :
                 (FailsCoercion(f.raw[c]) /\ RequiredPresent(f.raw)) =>
                    \E r \in Rows(cache.val) :
                       /\ r.idx = f.idx
                       /\ r[c] = NaN
                       /\ \A g \in Rows(load_data(<<[f.raw EXCEPT ![c] = "1.000"]>>)) :
                             \A c2 \in Columns \ {c} : r[c2] = g[c2]

C2_Witness ==
    /\ status # "init"
    /\ \E f \in FileRows :
          /\ FailsCoercion(f.raw.local_price)
          /\ \E r \in Rows(df) : r.idx = f.idx /\ r.local_price = NaN
                                 /\ r.dollar_price = Num(5126)
    /\ \E f \in FileRows :
          /\ FailsCoercion(f.raw.dollar_price)
          /\ to_datetime(f.raw.date) # NaT
          /\ read_text(f.raw.iso_a3) # NullStr
          /\ read_text(f.raw.name) # NullStr

ValidCalendarDate(ts) ==
    /\ Len(ts) = 4
    /\ ts[2] \in 1..12
    /\ ts[3] \in 1..DaysInMonth(ts[1], ts[2])
    /\ ts[4] \in 0..23

\* C3 as stated: every loaded row has a valid calendar date, an iso_a3 of length
\* 3, a non-empty name and a finite dollar_price.
C3_Original ==
    \A r \in Rows(df) :
        /\ ValidCalendarDate(r.date)
        /\ Len(r.iso_a3) = 3
        /\ r.name # ""
        /\ r.dollar_price.k = "num"

\* C3 as amended: every loaded row has a valid calendar date, a non-empty iso_a3
\* (of any length), a non-empty name and a dollar_price that is a number or an
\* infinity, never NaN.
C3_LoadedRowsAreWellFormed ==
    \A r \in Rows(df) :
        /\ ValidCalendarDate(r.date)
        /\ r.iso_a3 \notin {"", NullStr}
        /\ r.name \notin {"", NullStr}
        /\ r.dollar_price.k \in {"num", "inf"}

C3_Witness ==
    /\ \E r \in Rows(df) : Len(r.iso_a3) = 2
    /\ \E r \in Rows(df) : r.dollar_price = PosInf
    /\ \E f \in FileRows : f.raw.date = <<2024, 2, 30>>

\* The cells of a merged or primary row that come from the primary table.
Primary(r) == [c \in Columns \cup {"year"} |-> r[c]]

\* How many rows of t carry the primary cells of r.
Copies(t, r) == Cardinality({i \in 1..Len(t) : Primary(t[i]) = Primary(r)})

\* The positions of the PPP rows that have the key of the primary row r.
KeyMates(r) ==
    {j \in 1..Len(ppp_csv) :
        /\ read_text(ppp_csv[j].Country) = r.name
        /\ ppp_csv[j].Year = r.date[1]}

PPPKeysUnique ==
    \A i, j \in 1..Len(ppp_csv) :
        (ppp_csv[i].Country = ppp_csv[j].Country /\ ppp_csv[i].Year = ppp_csv[j].Year)
            => i = j

\* C4: the merge is a left outer join on (name, year): no primary row is lost,
\* the merged table is as long as the primary table when the PPP keys are
\* unique, a primary row without a PPP row of its key appears once with a NaN
\* PPP, and a primary row with k >= 1 PPP rows of its key appears k times.
C4_MergeIsLeftJoin ==
    status # "init" =>
        /\ Len(merged_df) >= Len(df)
        /\ PPPKeysUnique => Len(merged_df) = Len(df)
        /\ \A r \in Rows(df) :
              LET k == Cardinality(KeyMates(r))
              IN  /\ Copies(merged_df, r) >= 1
                  /\ k = 0 =>
                        /\ Copies(merged_df, r) = Copies(df, r)
                        /\ \A m \in Rows(merged_df) :
                              Primary(m) = Primary(r) => m.PPP = NaN
                  /\ k >= 1 =>
                        /\ Copies(merged_df, r) = k * Copies(df, r)
                        /\ \A j \in KeyMates(r) : \E m \in Rows(merged_df) :
                              /\ Primary(m) = Primary(r)
                              /\ m.PPP = to_numeric(ppp_csv[j].PPP)
        /\ \A m \in Rows(merged_df) : \E r \in Rows(df) : Primary(m) = Primary(r)

C4_Witness ==
    /\ status # "init"
    /\ ~PPPKeysUnique
    /\ \E r \in Rows(df) : Cardinality(KeyMates(r)) = 0 /\ Copies(merged_df, r) = 1
    /\ \E r \in Rows(df) : Cardinality(KeyMates(r)) = 2 /\ Copies(merged_df, r) = 2
    /\ Len(merged_df) = 3

\* The calendar days of the model's files, and one that no file has.
Days == {<<2024, 1, 1>>, <<2024, 1, 2>>, <<2023, 1, 1>>, <<2024, 2, 1>>}

OnDay(t, day) == SelectSeq(t, LAMBDA r : SubSeq(r.date, 1, 3) = day)

DayText(day) == strftime(<<day[1], day[2], day[3], 0>>)

\* C5: filtering by the YYYY-MM-DD text of a day returns exactly the rows whose
\* date falls on that day, and the empty table when there is none; the table
\* behind the map is the rows of the selected day.
C5_DateFilterIsExact ==
    status # "init" =>
        /\ \A day \in Days : filter_by_date(df, DayText(day)) = OnDay(df, day)
        /\ selected_date # None =>
              \E day \in Days :
                 /\ selected_date = DayText(day)
                 /\ OnDay(df, day) # <<>>
                 /\ [i \in 1..Len(map_df) |-> map_df[i].idx]
                       = [i \in 1..Len(OnDay(df, day)) |-> OnDay(df, day)[i].idx]
        /\ selected_date = None =>
              /\ df = <<>>
              /\ map_df = <<>>
              /\ map_out = "No data for selected date."

C5_Witness ==
    /\ status # "init"
    /\ Len(df) = 3
    /\ Len(map_df) = 2
    /\ map_df[1].date # map_df[2].date
    /\ \E day \in Days : OnDay(df, day) = <<>> /\ filter_by_date(df, DayText(day)) = <<>>

\* C6: the most expensive country shown is the name of the first row of the
\* subset whose dollar_price is the largest of the subset, and the value shown
\* is that largest dollar_price.
C6_MostExpensiveIsFirstMaximum ==
    metrics.state = "metrics" =>
        \E i \in 1..Len(filtered_df) :
            /\ metrics.most_expensive = filtered_df[i].name
            /\ metrics.most_expensive_price = filtered_df[i].dollar_price
            /\ \A j \in 1..Len(filtered_df) :
                  filtered_df[j].dollar_price.v <= filtered_df[i].dollar_price.v
            /\ \A j \in 1..(i - 1) :
                  filtered_df[j].dollar_price.v < filtered_df[i].dollar_price.v

C6_Witness ==
    /\ metrics.state = "metrics"
    /\ \E i, j \in 1..Len(filtered_df) :
          /\ i < j
          /\ filtered_df[i].dollar_price = metrics.most_expensive_price
          /\ filtered_df[j].dollar_price = metrics.most_expensive_price
          /\ filtered_df[i].name # filtered_df[j].name
          /\ metrics.most_expensive = filtered_df[i].name
    /\ \E i \in 1..Len(filtered_df) :
          filtered_df[i].dollar_price # metrics.most_expensive_price

\* C7: once the country selection is made, an empty subset gives the warning
\* "No data for metrics." and no statistic is evaluated, and a non-empty subset
\* gives the statistics.
C7_NoStatisticOnEmptySubset ==
    /\ metrics.state # "ValueError"
    /\ status = "ok" =>
          /\ filtered_df = <<>> => metrics = [state |-> "No data for metrics."]
          /\ filtered_df # <<>> =>
                /\ metrics.state = "metrics"
                /\ DOMAIN metrics = {"state", "avg_price", "avg_gdp",
                                     "most_expensive", "most_expensive_price"}

C7_Witness ==
    /\ status = "ok"
    /\ selected_countries # {}
    /\ df # <<>>
    /\ filtered_df = <<>>
    /\ metrics.state = "No data for metrics."

\* C8 as stated: the loader body runs at most once and the PPP load and join
\* run once, however many interactions follow.
C8_Original ==
    /\ load_calls <= 1
    /\ merge_calls <= 1

\* C8 as amended: the loader body runs once, in the first run of the script,
\* and the PPP load and join run in every run of the script.
C8_LoaderOnceJoinEveryRun ==
    /\ load_calls = (IF runs = 0 THEN 0 ELSE 1)
    /\ merge_calls = runs
    /\ cache.set <=> runs > 0

C8_Witness ==
    /\ runs = 2
    /\ load_calls = 1
    /\ merge_calls = 2

\* C9: no record of the loaded or of the merged table changes after it is
\* built: after every run df is the cached table with its year column, and a
\* run leaves the cached table, df and merged_df as the run before built them.
C9_TablesAreNeverMutated ==
    [][/\ df' = with_year(cache'.val)
       /\ status # "init" =>
             /\ cache' = cache
             /\ df' = df
             /\ merged_df' = merged_df]_vars

C9_Witness ==
    /\ runs = 2
    /\ date_select.set
    /\ \E i \in 1..Len(map_df) : \E r \in Rows(df) :
          /\ r.idx = map_df[i].idx
          /\ r.dollar_price = Num(5126)
          /\ map_df[i].dollar_price = Num(5130)

\* The rows of df on the selected date, of the selected countries when some
\* are selected and of every country when none is.
MetricsSubset ==
    SelectSeq(df, LAMBDA r :
        /\ strftime(r.date) = selected_date
        /\ (selected_countries # {} => r.name \in selected_countries))

\* C10: the metrics are computed over the rows of the selected date whose
\* country is selected, over all rows of the selected date when no country is
\* selected (the trend charts then give way to a warning), and from the
\* dollar_price values of the loaded table, not from the rounded ones.
C10_MetricsSubset ==
    status = "ok" =>
        /\ filtered_df = MetricsSubset
        /\ trend_out = (IF selected_countries = {} THEN "Select at least one country."
                        ELSE "charts")
        /\ MetricsSubset # <<>> =>
              /\ metrics.state = "metrics"
              /\ metrics.avg_price.v = SumNum(Column(MetricsSubset, "dollar_price"))
              /\ metrics.avg_price.n = Len(MetricsSubset)
              /\ \E r \in Rows(MetricsSubset) :
                    metrics.most_expensive_price = r.dollar_price

C10_Witness ==
    /\ status = "ok"
    /\ selected_countries = {}
    /\ trend_out = "Select at least one country."
    /\ Len(filtered_df) >= 2
    /\ filtered_df[1].name # filtered_df[2].name
    /\ metrics.state = "metrics"
    /\ metrics.most_expensive_price = Num(5134)
    /\ \A i \in 1..Len(map_df) : map_df[i].dollar_price = Num(5130)

====
